---- MODULE Spec2Model ----
(***************************************************************************)
(* Model of src/code/sec_1b.py: the three analysis functions label_stats,  *)
(* feature_plot and label_plot over an in-memory DataFrame, and the        *)
(* __main__ block that runs them.                                          *)
(*                                                                         *)
(* pandas and matplotlib behave as in the releases the code is written for  *)
(* (Series.append, DataFrame.append and applymap exist).                   *)
(*                                                                         *)
(* A DataFrame is a sequence of rows; the position of a row is its index   *)
(* label.  A missing value (NaN) of column x is the empty sequence, a      *)
(* present value v is <<v>>.  Fractions are pairs <<numerator,             *)
(* denominator>> and are compared by cross-multiplication, so the          *)
(* arithmetic of the percentage table is exact.                            *)
(***************************************************************************)
EXTENDS Integers, Sequences, FiniteSets, TLC

VARIABLES
    pc,       \* position of the __main__ block, or "lib" when the functions are called directly
    seed,     \* the process-wide random seed: <<>> unset, <<n>> set
    df,       \* the dataset handed to the functions
    stdout,   \* one report per label_stats call, in call order
    figures,  \* pyplot's figure registry: every figure created so far, in creation order
    log       \* one entry per executed step or call: what ran, on what, how it ended

vars == <<pc, seed, df, stdout, figures, log>>

----------------------------------------------------------------------------
(* Bounds of the model *)

MaxRows == 3
MaxPlotRows == 4
MaxCalls == 2

(* Program constants *)

TotalDivisor == 3
GridCols == 3
GridRows == 1
FeatureGridRows == 2
FeatureGridCols == 4

NaN == <<>>

Labels == {1, -1, 0}

\* Image ids: one more than the label_plot grid has columns.
Sources == 1..(GridCols + 1)

Features == <<"NDAI", "SD", "CORR", "angle_DF", "angle_CF", "angle_BF", "angle_AF", "angle_AN">>

FeatureTitles == <<"NDAI", "SD", "CORR", "Radiance angle DF", "Radiance angle CF",
                   "Radiance angle BF", "Radiance angle AF", "Radiance angle AN">>

FeatureSet == {Features[k] : k \in DOMAIN Features}

FeatureIndex(f) == CHOOSE k \in DOMAIN Features : Features[k] = f

\* Three feature vectors a row can carry.  Every feature has its own value
\* range (the tens digit tells the vector, the units digit the feature), and
\* the third vector equals the first except in NDAI.
FeatureVectors ==
    { [f \in FeatureSet |-> FeatureIndex(f)],
      [f \in FeatureSet |-> 10 + FeatureIndex(f)],
      [f \in FeatureSet |-> IF f = "NDAI" THEN 20 + FeatureIndex(f) ELSE FeatureIndex(f)] }

BaseFeatures == [f \in FeatureSet |-> FeatureIndex(f)]

SeqsUpTo(S, n) == UNION { [1..k -> S] : k \in 0..n }

----------------------------------------------------------------------------
(* Helpers: sets, sorting, fractions *)

SetMin(S) == CHOOSE m \in S : \A e \in S : m <= e

SetMax(S) == CHOOSE m \in S : \A e \in S : e <= m

RECURSIVE SortedSeqOf(_)
SortedSeqOf(S) ==
    IF S = {} THEN <<>>
    ELSE LET m == SetMin(S) IN <<m>> \o SortedSeqOf(S \ {m})

Range(s) == {s[i] : i \in DOMAIN s}

FracAdd(a, b) == <<a[1] * b[2] + b[1] * a[2], a[2] * b[2]>>

FracDiv(a, k) == <<a[1], a[2] * k>>

RECURSIVE FracSum(_)
FracSum(s) == IF s = <<>> THEN <<0, 1>> ELSE FracAdd(Head(s), FracSum(Tail(s)))

----------------------------------------------------------------------------
(* label_stats *)

\* The rows (index labels) of d whose source is s.
RowsOf(d, s) == {i \in DOMAIN d : d[i].source = s}

\* df.groupby('source'): the group keys, ascending.
GroupKeys(d) == SortedSeqOf({d[i].source : i \in DOMAIN d})

\* df.groupby('source')['x'].count(): per group, the number of non-NaN x.
GroupCountX(d) ==
    [k \in DOMAIN GroupKeys(d) |->
        <<GroupKeys(d)[k],
          Cardinality({i \in RowsOf(d, GroupKeys(d)[k]) : d[i].x # NaN})>>]

\* The Series printed at line 18: the group counts, then df.shape[0] under 'Total'.
PixelCounts(d) == [rows |-> GroupCountX(d), Total |-> Len(d)]

\* Variant: the cell normalised over the whole frame (normalize='all').
CrosstabCellAll(d, s, l) ==
    <<Cardinality({i \in RowsOf(d, s) : d[i].label = l}), Len(d)>>

\* pd.crosstab(df['source'], df['label'], normalize='index'): one row per
\* source, one column per label value that occurs, each cell the count of
\* the (source, label) pair over the count of the source.
CrosstabCell(d, s, l) ==
    <<Cardinality({i \in RowsOf(d, s) : d[i].label = l}), Cardinality(RowsOf(d, s))>>

Crosstab(d) ==
    [index |-> GroupKeys(d),
     columns |-> SortedSeqOf({d[i].label : i \in DOMAIN d}),
     cell |-> [s \in Range(GroupKeys(d)), l \in {d[i].label : i \in DOMAIN d} |->
                  CrosstabCell(d, s, l)]]

\* Variant: the columns left in crosstab's own ascending order.
AscendingColumnOrder == <<-1, 0, 1>>

\* The column list of the selection [[1, -1, 0]].
ColumnOrder == <<1, -1, 0>>

\* frame[[...]] raises KeyError when a listed column is not in the frame.
SelectRaises(ct, cols) == \E k \in DOMAIN cols : cols[k] \notin Range(ct.columns)

SelectColumns(ct, cols) ==
    [index |-> ct.index,
     columns |-> cols,
     rows |-> [r \in DOMAIN ct.index |->
                  [k \in DOMAIN cols |-> ct.cell[ct.index[r], cols[k]]]]]

\* stats.sum(axis=0).rename('Total') / 3
TotalRow(stats) ==
    [k \in DOMAIN stats.columns |->
        FracDiv(FracSum([r \in DOMAIN stats.rows |-> stats.rows[r][k]]), TotalDivisor)]

\* round(float(x) * 100, 2): hundredths of a percent, ties to even.
FormatCell(f) ==
    LET q == (10000 * f[1]) \div f[2]
        r == (10000 * f[1]) % f[2]
    IN  IF 2 * r > f[2] THEN q + 1
        ELSE IF 2 * r = f[2] THEN q + (q % 2)
        ELSE q

FormatRow(row) == [k \in DOMAIN row |-> FormatCell(row[k])]

\* df.groupby(['x', 'y', 'source']).size(): the sizes of the groups; a row
\* with a NaN key is in no group.
CoordinateGroupSizes(d) ==
    { Cardinality({j \in DOMAIN d : /\ d[j].x = d[i].x
                                    /\ d[j].y = d[i].y
                                    /\ d[j].source = d[i].source})
      : i \in {i \in DOMAIN d : d[i].x # NaN} }

\* .max() == 1: the max of no sizes is NaN, and NaN == 1 is False.
DuplicateMessage(d) ==
    IF CoordinateGroupSizes(d) # {} /\ SetMax(CoordinateGroupSizes(d)) = 1
    THEN "No observations with same coordinates found in each image"
    ELSE "Detected observations with same coordinates"

\* What one call of label_stats prints, and how it ends.
LabelStats(d) ==
    LET ct == Crosstab(d)
        stats == SelectColumns(ct, ColumnOrder)
    IN  IF SelectRaises(ct, ColumnOrder)
        THEN [lines |-> <<"counts header", "counts", "percentage header">>,
              counts |-> PixelCounts(d),
              columns |-> <<>>, index |-> <<>>, stats |-> <<>>, totals |-> <<>>,
              text |-> <<>>, message |-> "",
              exc |-> "KeyError"]
        ELSE [lines |-> <<"counts header", "counts", "percentage header", "table", "message">>,
              counts |-> PixelCounts(d),
              columns |-> stats.columns,
              index |-> stats.index,
              stats |-> stats.rows,
              totals |-> TotalRow(stats),
              text |-> [r \in 1..(Len(stats.rows) + 1) |->
                           IF r <= Len(stats.rows) THEN FormatRow(stats.rows[r])
                           ELSE FormatRow(TotalRow(stats))],
              message |-> DuplicateMessage(d),
              exc |-> "none"]

----------------------------------------------------------------------------
(* pyplot: figures and axes *)

\* Variant: the current figure (plt.gcf()) when one exists.
PltGcf(figs) == IF figs = <<>> THEN [axes |-> <<>>, legend |-> <<>>] ELSE figs[Len(figs)]

\* plt.figure(...): a new, empty figure, whatever figures exist already.
PltFigure(figs) == [axes |-> <<>>, legend |-> <<>>]

\* fig.add_subplot(nrows, ncols, index) raises ValueError unless 1 <= index <= nrows * ncols.
AddSubplotRaises(nrows, ncols, index) == ~(1 <= index /\ index <= nrows * ncols)

----------------------------------------------------------------------------
(* feature_plot *)

\* Variant: the feature's values in every row (df[feature]).
WholeFeature(d, s, f) == [i \in DOMAIN d |-> d[i].feat[f]]

\* df_source[feature]: the feature's values in the rows of source s, in row order.
RECURSIVE SourceFeature(_, _, _)
SourceFeature(d, s, f) ==
    IF d = <<>> THEN <<>>
    ELSE (IF Head(d).source = s THEN <<Head(d).feat[f]>> ELSE <<>>)
         \o SourceFeature(Tail(d), s, f)

\* The kernel density estimate of a sample raises ValueError for fewer than
\* two values and LinAlgError for a sample of zero variance.
KdeError(sample) ==
    IF Len(sample) < 2 THEN "ValueError"
    ELSE IF \A i \in DOMAIN sample : sample[i] = sample[1] THEN "LinAlgError"
    ELSE "none"

\* The iterations of the nested loop of lines 55-59, in order: with keys the
\* group keys, iteration n handles source FeatureLoopSource(keys, n) and
\* feature number FeatureLoopIndex(n).
FeatureLoopLength(keys) == Len(keys) * Len(Features)

FeatureLoopSource(keys, n) == keys[((n - 1) \div Len(Features)) + 1]

FeatureLoopIndex(n) == ((n - 1) % Len(Features)) + 1

\* The sample the curve of iteration n is drawn from (line 58).
CurveSample(d, keys, n) ==
    SourceFeature(d, FeatureLoopSource(keys, n), Features[FeatureLoopIndex(n)])

\* The first iteration whose plot call raises; one past the end when none does.
FeatureLoopStop(d, keys) ==
    LET bad == {n \in 1..FeatureLoopLength(keys) : KdeError(CurveSample(d, keys, n)) # "none"}
    IN  IF bad # {} THEN SetMin(bad) ELSE FeatureLoopLength(keys) + 1

FeaturePlotExc(d) ==
    LET keys == GroupKeys(d)
        stop == FeatureLoopStop(d, keys)
    IN  IF stop <= FeatureLoopLength(keys) THEN KdeError(CurveSample(d, keys, stop)) ELSE "none"

\* The curves drawn on subplot k: one per completed iteration of feature k,
\* in loop order.
CurvesOf(d, keys, stop, k) ==
    LET done == {n \in 1..(stop - 1) : FeatureLoopIndex(n) = k}
        order == SortedSeqOf(done)
    IN  [i \in DOMAIN order |->
            [label |-> <<"Image", ToString(FeatureLoopSource(keys, order[i]))>>,
             data |-> CurveSample(d, keys, order[i])]]

\* Subplot k after the loop: the title is set when an iteration of feature k
\* started (line 57), the x label when one completed (line 59).
FeatureAxes(d, keys, stop, k) ==
    [pos |-> <<FeatureGridRows, FeatureGridCols, k>>,
     title |-> IF \E n \in 1..FeatureLoopLength(keys) : n <= stop /\ FeatureLoopIndex(n) = k
               THEN <<"Distribution of", FeatureTitles[k]>> ELSE <<>>,
     xlabel |-> IF \E n \in 1..FeatureLoopLength(keys) : n < stop /\ FeatureLoopIndex(n) = k
                THEN <<FeatureTitles[k]>> ELSE <<>>,
     curves |-> CurvesOf(d, keys, stop, k),
     points |-> <<>>]

\* The figure feature_plot leaves behind when it draws into figure fig.
FeaturePlot(d, fig) ==
    LET keys == GroupKeys(d)
        stop == FeatureLoopStop(d, keys)
    IN  [axes |-> fig.axes \o [k \in DOMAIN Features |-> FeatureAxes(d, keys, stop, k)],
         legend |-> fig.legend]

----------------------------------------------------------------------------
(* label_plot *)

\* The colour dictionary of line 70.
Color(l) == IF l = 1 THEN "#dddddd" ELSE IF l = 0 THEN "black" ELSE "grey"

\* df['source'].unique(): the source values in order of first appearance.
RECURSIVE Unique(_)
Unique(d) ==
    IF d = <<>> THEN <<>>
    ELSE LET init == Unique(SubSeq(d, 1, Len(d) - 1))
             s == d[Len(d)].source
         IN  IF s \in Range(init) THEN init ELSE Append(init, s)

\* Variant: the sources in order of first appearance, unsorted.
UnsortedSources(d) == Unique(d)

\* sorted(df['source'].unique())
SortedSources(d) == SortedSeqOf(Range(Unique(d)))

\* df.loc[df['source'] == source] scattered with c = the colour of each row's label.
RECURSIVE ScatterPoints(_, _, _)
ScatterPoints(d, s, base) ==
    IF d = <<>> THEN <<>>
    ELSE (IF Head(d).source = s
          THEN <<[idx |-> base + 1, x |-> Head(d).x, y |-> Head(d).y, c |-> Color(Head(d).label)]>>
          ELSE <<>>)
         \o ScatterPoints(Tail(d), s, base + 1)

LabelAxes(d, idx) ==
    [pos |-> <<GridRows, GridCols, idx>>,
     title |-> <<"Image", ToString(SortedSources(d)[idx])>>,
     xlabel |-> <<"x">>,
     curves |-> <<>>,
     points |-> ScatterPoints(d, SortedSources(d)[idx], 0)]

\* The loop of lines 71-75 stops at the first index add_subplot rejects.
LabelPlotRaises(d) ==
    \E idx \in 1..Len(SortedSources(d)) : AddSubplotRaises(GridRows, GridCols, idx)

LabelPlotDrawn(d) ==
    IF LabelPlotRaises(d)
    THEN SetMin({idx \in 1..Len(SortedSources(d)) : AddSubplotRaises(GridRows, GridCols, idx)}) - 1
    ELSE Len(SortedSources(d))

\* The handles of fig.legend (lines 76-84).
LegendHandles ==
    << [label |-> "Cloudy (label = 1)", color |-> Color(1)],
       [label |-> "Cloud-Free (label = -1)", color |-> Color(-1)],
       [label |-> "Unlabeled (label = 0)", color |-> Color(0)] >>

LabelPlot(d, fig) ==
    [axes |-> fig.axes \o [idx \in 1..LabelPlotDrawn(d) |-> LabelAxes(d, idx)],
     legend |-> IF LabelPlotRaises(d) THEN fig.legend ELSE LegendHandles]

LabelPlotExc(d) == IF LabelPlotRaises(d) THEN "ValueError" ELSE "none"

----------------------------------------------------------------------------
(* Calling the functions directly *)

CallLabelStats ==
    /\ pc = "lib"
    /\ Len(log) < MaxCalls
    /\ stdout' = Append(stdout, LabelStats(df))
    /\ log' = Append(log, [step |-> "label_stats", arg |-> df,
                           exc |-> LabelStats(df).exc, out |-> Len(stdout) + 1])
    /\ UNCHANGED <<pc, seed, df, figures>>

CallFeaturePlot ==
    /\ pc = "lib"
    /\ Len(log) < MaxCalls
    /\ figures' = Append(figures, FeaturePlot(df, PltFigure(figures)))
    /\ log' = Append(log, [step |-> "feature_plot", arg |-> df,
                           exc |-> FeaturePlotExc(df), out |-> Len(figures) + 1])
    /\ UNCHANGED <<pc, seed, df, stdout>>

CallLabelPlot ==
    /\ pc = "lib"
    /\ Len(log) < MaxCalls
    /\ figures' = Append(figures, LabelPlot(df, PltFigure(figures)))
    /\ log' = Append(log, [step |-> "label_plot", arg |-> df,
                           exc |-> LabelPlotExc(df), out |-> Len(figures) + 1])
    /\ UNCHANGED <<pc, seed, df, stdout>>

InitWith(datasets) ==
    /\ pc = "lib"
    /\ seed = <<>>
    /\ df \in datasets
    /\ stdout = <<>>
    /\ figures = <<>>
    /\ log = <<>>

\* Rows of two images, with every label and two feature vectors.
MainRows ==
    [source : 1..2, x : {<<0>>}, y : {0}, label : Labels,
     feat : {[f \in FeatureSet |-> FeatureIndex(f)], [f \in FeatureSet |-> 10 + FeatureIndex(f)]}]

\* label_stats alone: rows that differ in source, label and whether x is missing.
StatsRows == [source : Sources, x : {<<0>>, NaN}, y : {0}, label : Labels, feat : {BaseFeatures}]

InitStats == InitWith(SeqsUpTo(StatsRows, MaxRows))

\* label_stats alone, called once.
NextStats == Len(log) = 0 /\ CallLabelStats

SpecStats == InitStats /\ [][NextStats]_vars

\* label_plot alone, on datasets with up to four sources and every label.
LabelPlotRows == [source : Sources, x : {<<0>>}, y : {0}, label : Labels, feat : {BaseFeatures}]

InitLabelPlot == InitWith(SeqsUpTo(LabelPlotRows, MaxPlotRows))

NextLabelPlot == Len(log) = 0 /\ CallLabelPlot

SpecLabelPlot == InitLabelPlot /\ [][NextLabelPlot]_vars

\* feature_plot alone, on datasets whose rows differ in source and features.
FeaturePlotRows == [source : 1..GridCols, x : {<<0>>}, y : {0}, label : {1}, feat : FeatureVectors]

InitFeaturePlot == InitWith(SeqsUpTo(FeaturePlotRows, MaxPlotRows))

NextFeaturePlot == Len(log) = 0 /\ CallFeaturePlot

SpecFeaturePlot == InitFeaturePlot /\ [][NextFeaturePlot]_vars

\* The three functions called in any order.
LibRows == MainRows

InitLib == InitWith(SeqsUpTo(LibRows, MaxRows))

NextLib == CallLabelStats \/ CallFeaturePlot \/ CallLabelPlot

SpecLib == InitLib /\ [][NextLib]_vars

----------------------------------------------------------------------------
(* The __main__ block *)

\* Variant: plt.show() placed before feature_plot.
NextStatementShowEarly(stmt) ==
    CASE stmt = "set_seed" -> "load_data"
      [] stmt = "load_data" -> "label_stats"
      [] stmt = "label_stats" -> "label_plot"
      [] stmt = "label_plot" -> "show"
      [] stmt = "show" -> "feature_plot"
      [] stmt = "feature_plot" -> "exit"

\* The statement that follows statement stmt in lines 88-94.
NextStatement(stmt) ==
    CASE stmt = "set_seed" -> "load_data"
      [] stmt = "load_data" -> "label_stats"
      [] stmt = "label_stats" -> "label_plot"
      [] stmt = "label_plot" -> "feature_plot"
      [] stmt = "feature_plot" -> "show"
      [] stmt = "show" -> "exit"

\* Where control goes after a statement that ended with exc.
After(stmt, exc) == IF exc = "none" THEN NextStatement(stmt) ELSE "crashed"

MainSetSeed ==
    /\ pc = "set_seed"
    /\ seed' = <<0>>
    /\ log' = Append(log, [step |-> "set_seed", arg |-> <<>>, exc |-> "none", out |-> 0])
    /\ pc' = After("set_seed", "none")
    /\ UNCHANGED <<df, stdout, figures>>

\* The datasets the loader can hand over: up to MaxRows rows of two images,
\* or one row more than the label_plot grid has columns, of up to four images.
LoadableDatasets == SeqsUpTo(MainRows, MaxRows) \cup [1..(GridCols + 1) -> LabelPlotRows]

\* load_data() returns a dataset or raises.
MainLoadData ==
    /\ pc = "load_data"
    /\ \/ /\ df' \in LoadableDatasets
          /\ log' = Append(log, [step |-> "load_data", arg |-> <<>>, exc |-> "none", out |-> 0])
          /\ pc' = After("load_data", "none")
       \/ /\ df' = df
          /\ log' = Append(log, [step |-> "load_data", arg |-> <<>>, exc |-> "OSError", out |-> 0])
          /\ pc' = After("load_data", "OSError")
    /\ UNCHANGED <<seed, stdout, figures>>

MainLabelStats ==
    /\ pc = "label_stats"
    /\ stdout' = Append(stdout, LabelStats(df))
    /\ log' = Append(log, [step |-> "label_stats", arg |-> df,
                           exc |-> LabelStats(df).exc, out |-> Len(stdout) + 1])
    /\ pc' = After("label_stats", LabelStats(df).exc)
    /\ UNCHANGED <<seed, df, figures>>

MainLabelPlot ==
    /\ pc = "label_plot"
    /\ figures' = Append(figures, LabelPlot(df, PltFigure(figures)))
    /\ log' = Append(log, [step |-> "label_plot", arg |-> df,
                           exc |-> LabelPlotExc(df), out |-> Len(figures) + 1])
    /\ pc' = After("label_plot", LabelPlotExc(df))
    /\ UNCHANGED <<seed, df, stdout>>

MainFeaturePlot ==
    /\ pc = "feature_plot"
    /\ figures' = Append(figures, FeaturePlot(df, PltFigure(figures)))
    /\ log' = Append(log, [step |-> "feature_plot", arg |-> df,
                           exc |-> FeaturePlotExc(df), out |-> Len(figures) + 1])
    /\ pc' = After("feature_plot", FeaturePlotExc(df))
    /\ UNCHANGED <<seed, df, stdout>>

\* plt.show() is entered and blocks.
MainShow ==
    /\ pc = "show"
    /\ log' = Append(log, [step |-> "show", arg |-> <<>>, exc |-> "none", out |-> 0])
    /\ pc' = "blocked"
    /\ UNCHANGED <<seed, df, stdout, figures>>

\* The figure windows are closed and plt.show() returns.
MainShowReturns ==
    /\ pc = "blocked"
    /\ pc' = After("show", "none")
    /\ UNCHANGED <<seed, df, stdout, figures, log>>

InitMain ==
    /\ pc = "set_seed"
    /\ seed = <<>>
    /\ df = <<>>
    /\ stdout = <<>>
    /\ figures = <<>>
    /\ log = <<>>

NextMain ==
    \/ MainSetSeed
    \/ MainLoadData
    \/ MainLabelStats
    \/ MainLabelPlot
    \/ MainFeaturePlot
    \/ MainShow
    \/ MainShowReturns

SpecMain == InitMain /\ [][NextMain]_vars

----------------------------------------------------------------------------
(* Properties *)

\* Equality of two fractions, and the sum of a sequence of numbers.
FracEq(a, b) == a[1] * b[2] = b[1] * a[2]

RECURSIVE SeqSum(_)
SeqSum(s) == IF s = <<>> THEN 0 ELSE Head(s) + SeqSum(Tail(s))

\* The reports of the label_stats calls that reached the percentage table.
TableReports == {k \in DOMAIN stdout : stdout[k].exc = "none"}

\* The distinct source values of the dataset.
SourceValues == {df[i].source : i \in DOMAIN df}

\* The number of rows of source s carrying label l, and of source s.
LabelCount(s, l) == Cardinality({i \in DOMAIN df : df[i].source = s /\ df[i].label = l})

SourceCount(s) == Cardinality({i \in DOMAIN df : df[i].source = s})

\* C1: in every pixel-count report the per-source counts sum to the value of
\* the 'Total' row, which is the number of rows of the dataset.
C1_CountsSumToTotal ==
    \A k \in DOMAIN stdout :
        /\ stdout[k].counts.Total = Len(df)
        /\ SeqSum([i \in DOMAIN stdout[k].counts.rows |-> stdout[k].counts.rows[i][2]])
              = stdout[k].counts.Total

\* C2: in every percentage table there is one row per source, its three
\* cells (labels 1, -1, 0) are the source's label counts over the source's
\* row count, and they sum to 1.
C2_FractionsPerSource ==
    \A k \in TableReports :
        /\ Range(stdout[k].index) = SourceValues
        /\ \A r \in DOMAIN stdout[k].index :
              LET s == stdout[k].index[r]
                  row == stdout[k].stats[r]
              IN  /\ Len(row) = 3
                  /\ FracEq(row[1], <<LabelCount(s, 1), SourceCount(s)>>)
                  /\ FracEq(row[2], <<LabelCount(s, -1), SourceCount(s)>>)
                  /\ FracEq(row[3], <<LabelCount(s, 0), SourceCount(s)>>)
                  /\ row[1][2] > 0 /\ row[2][2] > 0 /\ row[3][2] > 0
                  /\ FracEq(FracSum(row), <<1, 1>>)

\* A table with two sources, one of them holding two labels, was printed.
C2_Witness ==
    \E k \in TableReports :
        /\ Len(stdout[k].index) = 2
        /\ \E r \in DOMAIN stdout[k].stats :
              stdout[k].stats[r][1][1] > 0 /\ stdout[k].stats[r][2][1] > 0

\* C3: every entry of the Total row of the percentage table is the column's
\* sum of per-source fractions divided by the number of distinct sources,
\* and the three entries sum to 1.
C3_TotalRowIsMean ==
    \A k \in TableReports :
        /\ \A c \in 1..3 :
              FracEq(stdout[k].totals[c],
                     FracDiv(FracSum([r \in DOMAIN stdout[k].stats |-> stdout[k].stats[r][c]]),
                             Cardinality(SourceValues)))
        /\ FracEq(FracSum(stdout[k].totals), <<1, 1>>)

\* Every (x, y, source) triple of the dataset occurs in exactly one row.
TriplesUnique ==
    \A i, j \in DOMAIN df :
        i # j => <<df[i].x, df[i].y, df[i].source>> # <<df[j].x, df[j].y, df[j].source>>

\* C4: every label_stats call prints exactly one duplicate-coordinate
\* message: the 'No observations with same coordinates' one when every
\* (x, y, source) triple occurs once, the 'Detected' one otherwise.
C4_DuplicateMessage ==
    \A k \in DOMAIN stdout :
        stdout[k].message =
            IF TriplesUnique
            THEN "No observations with same coordinates found in each image"
            ELSE "Detected observations with same coordinates"

\* The figures the calls of step made, with how each call ended.
CallsOf(step) == {k \in DOMAIN log : log[k].step = step}

\* The colour the claim gives a label value.
ClaimColor(l) == CASE l = 1 -> "#dddddd" [] l = 0 -> "black" [] l = -1 -> "grey"

\* C5: every label_plot call leaves one subplot per distinct source, the
\* subplot of source s scatters exactly the rows of source s, and a point's
\* colour is decided by its row's label.
C5_OneSubplotPerSource ==
    \A k \in CallsOf("label_plot") :
        LET fig == figures[log[k].out] IN
        /\ Len(fig.axes) = Cardinality(SourceValues)
        /\ \A s \in SourceValues :
              \E a \in DOMAIN fig.axes :
                 /\ fig.axes[a].title = <<"Image", ToString(s)>>
                 /\ {fig.axes[a].points[n].idx : n \in DOMAIN fig.axes[a].points}
                       = {i \in DOMAIN df : df[i].source = s}
                 /\ Len(fig.axes[a].points) = SourceCount(s)
                 /\ \A n \in DOMAIN fig.axes[a].points :
                       fig.axes[a].points[n].c = ClaimColor(df[fig.axes[a].points[n].idx].label)

\* The rows of source s in ascending index order.
RowSeq(s) == SortedSeqOf({i \in DOMAIN df : df[i].source = s})

\* C6: every feature_plot call leaves 8 subplots in grid positions 1..8, one
\* per feature; when the call returns, the subplot of a feature holds exactly
\* one curve per distinct source, labelled 'Image s' and drawn from that
\* feature's values in the rows of source s.
C6_OneCurvePerSource ==
    \A k \in CallsOf("feature_plot") :
        LET fig == figures[log[k].out]
            names == <<"NDAI", "SD", "CORR", "angle_DF", "angle_CF", "angle_BF", "angle_AF", "angle_AN">>
        IN
        /\ Len(fig.axes) = 8
        /\ \A a \in 1..8 : fig.axes[a].pos = <<2, 4, a>>
        /\ log[k].exc = "none" =>
              \A a \in 1..8 :
                 /\ Len(fig.axes[a].curves) = Cardinality(SourceValues)
                 /\ \A s \in SourceValues :
                       \E c \in DOMAIN fig.axes[a].curves :
                          /\ fig.axes[a].curves[c].label = <<"Image", ToString(s)>>
                          /\ fig.axes[a].curves[c].data
                                = [n \in DOMAIN RowSeq(s) |-> df[RowSeq(s)[n]].feat[names[a]]]

\* feature_plot returned on a dataset with two sources.
C6_Witness ==
    \E k \in CallsOf("feature_plot") :
        /\ log[k].exc = "none"
        /\ Cardinality(SourceValues) = 2
        /\ Len(figures[log[k].out].axes[8].curves) = 2

\* C7: every call was given the dataset as it is now (no call changed it),
\* and two calls of the same function ended the same way with the same
\* report or the same figure.
C7_NoMutationIdempotent ==
    /\ \A k \in DOMAIN log : log[k].arg = df
    /\ \A i, j \in DOMAIN log :
          log[i].step = log[j].step =>
             /\ log[i].exc = log[j].exc
             /\ log[i].step = "label_stats" => stdout[log[i].out] = stdout[log[j].out]
             /\ log[i].step # "label_stats" => figures[log[i].out] = figures[log[j].out]

\* feature_plot was called twice on a dataset of MaxRows rows.
C7_Witness ==
    /\ Len(log) = 2
    /\ log[1].step = log[2].step
    /\ log[1].step = "feature_plot"
    /\ Len(df) = MaxRows

\* C8: the steps run so far are a prefix of set_seed, load_data,
\* label_stats, label_plot, feature_plot, show; only the last of them can
\* have raised, and then nothing runs after it; the three analysis functions
\* were given the loaded dataset; show is entered only after all three
\* returned.
C8_MainOrder ==
    LET order == <<"set_seed", "load_data", "label_stats", "label_plot", "feature_plot", "show">>
    IN
    /\ Len(log) <= Len(order)
    /\ \A k \in DOMAIN log : log[k].step = order[k]
    /\ \A k \in DOMAIN log : k < Len(log) => log[k].exc = "none"
    /\ \A k \in DOMAIN log : k \in 3..5 => log[k].arg = df
    /\ (pc = "crashed") <=> (Len(log) > 0 /\ log[Len(log)].exc # "none")
    /\ pc \in {"blocked", "exit"} => Len(log) = 6
    /\ Len(log) >= 1 => seed = <<0>>
    /\ Len(log) = 0 => seed = <<>>

\* The script ran to the end on a dataset with rows.
C8_Witness == pc = "exit" /\ Len(log) = 6 /\ Len(df) = MaxRows /\ Len(figures) = 2

\* The number of distinct sources smaller than s.
SourcesBelow(s) == Cardinality({t \in SourceValues : t < s})

\* C9: in every figure of label_plot the subplot in grid position i of the
\* 1x3 row is titled with the i-th smallest source; a legend, once made, has
\* the three entries Cloudy, Cloud-Free, Unlabeled in this order, and the
\* colour of each entry is the colour of every scatter point of that label.
C9_OrderAndLegend ==
    \A k \in CallsOf("label_plot") :
        LET fig == figures[log[k].out]
            entry == [l \in {1, -1, 0} |-> IF l = 1 THEN 1 ELSE IF l = -1 THEN 2 ELSE 3]
        IN
        /\ \A a \in DOMAIN fig.axes :
              /\ fig.axes[a].pos = <<1, 3, a>>
              /\ \E s \in SourceValues :
                    SourcesBelow(s) = a - 1 /\ fig.axes[a].title = <<"Image", ToString(s)>>
        /\ log[k].exc = "none" <=> fig.legend # <<>>
        /\ fig.legend # <<>> =>
              /\ Len(fig.legend) = 3
              /\ fig.legend[1].label = "Cloudy (label = 1)"
              /\ fig.legend[2].label = "Cloud-Free (label = -1)"
              /\ fig.legend[3].label = "Unlabeled (label = 0)"
              /\ \A a \in DOMAIN fig.axes : \A n \in DOMAIN fig.axes[a].points :
                    fig.axes[a].points[n].c
                       = fig.legend[entry[df[fig.axes[a].points[n].idx].label]].color

\* label_plot returned on three sources that first appear in descending
\* order, with points of every label.
C9_Witness ==
    \E k \in CallsOf("label_plot") :
        /\ log[k].exc = "none"
        /\ Len(figures[log[k].out].axes) = 3
        /\ Len(df) = 3
        /\ df[1].source > df[2].source /\ df[2].source > df[3].source
        /\ {df[i].label : i \in DOMAIN df} = {1, -1, 0}

\* C10: every label_stats call prints the pixel counts first; it then either
\* prints the table with columns 1, -1, 0 and the duplicate message, in this
\* order, and returns, or - exactly when a label value occurs in no row -
\* raises from the column selection with neither table nor message printed.
C10_ReportOrder ==
    \A k \in CallsOf("label_stats") :
        LET rep == stdout[log[k].out]
            present == \A l \in {1, -1, 0} : \E i \in DOMAIN df : df[i].label = l
        IN
        /\ Len(rep.lines) >= 2 /\ rep.lines[2] = "counts"
        /\ log[k].exc = rep.exc
        /\ present =>
              /\ rep.exc = "none"
              /\ rep.lines = <<"counts header", "counts", "percentage header", "table", "message">>
              /\ rep.columns = <<1, -1, 0>>
              /\ Len(rep.text) = Len(rep.index) + 1
              /\ \A r \in DOMAIN rep.text : Len(rep.text[r]) = 3
              /\ rep.message # ""
        /\ ~present =>
              /\ rep.exc = "KeyError"
              /\ rep.lines = <<"counts header", "counts", "percentage header">>
              /\ rep.text = <<>>
              /\ rep.message = ""

\* label_stats raised on a dataset with rows but without label 0.
C10_Witness ==
    \E k \in CallsOf("label_stats") :
        /\ log[k].exc = "KeyError"
        /\ Len(df) = MaxRows
        /\ {df[i].label : i \in DOMAIN df} = {1, -1}

====
